---- MODULE Spec2Model ----
(***************************************************************************)
(* A model of chord_generation.py: the class Chord_progression_generator   *)
(* (its constructor, generate_chord_progressions, save_chord_progressions  *)
(* and _save_chord_progression), the files it writes and the lines it      *)
(* prints.                                                                 *)
(*                                                                         *)
(* Python lists are mutable objects.  The 24 chord templates built by the  *)
(* constructor are modelled as objects of a heap (address -> list of       *)
(* pitches); a list of chords holds addresses, as the Python list holds    *)
(* references.  The outer list of each progression is built fresh by       *)
(* list(...) and is held only by the result, so it is modelled by value.   *)
(***************************************************************************)
EXTENDS Integers, Sequences, FiniteSets, TLC

VARIABLES
    chord_templates,     \* self.chord_templates: the addresses of the templates
    heap,                \* address -> the list of pitches stored there
    chord_progressions,  \* the caller's variable holding generate's result
    num_chords,          \* the argument of the most recent generate call
    pc,                  \* "constructed" | "generated" | "saved" | "raised"
    fs,                  \* the file system: a set of [path, file] records
    trace,               \* what the most recent call did, in order: writes and prints
    call,                \* the arguments of the most recent save call, and fs before it
    file_path,           \* the local variable file_path of save_chord_progressions
    exc,                 \* the exception the most recent call ended with, or "none"
    saves                \* the number of save calls made so far

vars == <<chord_templates, heap, chord_progressions, num_chords, pc, fs, trace,
          call, file_path, exc, saves>>

(***************************************************************************)
(* Bounds of the model.                                                    *)
(***************************************************************************)
\* generate_chord_progressions is called with num_chords in -MaxNeg..MaxN
MaxN == 2
MaxNeg == 1
\* the sizes of the lists passed to save_chord_progressions: 0..MaxSmall, and MaxSave
MaxSmall == 2
MaxSave == 200
\* a json save is passed a list of at most MaxJson progressions
MaxJson == 2
\* at most MaxSaves save calls in one run, of which at most MaxJsonSaves in a run
\* that saves json only
MaxSaves == 1
MaxJsonSaves == 2
\* the caller overwrites pitches of the first MaxMutated progressions it holds,
\* with values in 0..MaxPitch
MaxMutated == 2
MaxPitch == 0
\* a failing write fails at one of the first MaxFail indices, around a
\* progress notice, or at the last index
MaxFail == 2

(***************************************************************************)
(* Python helpers.                                                         *)
(***************************************************************************)
\* Faulty variant: a count of |b - a| elements, so that a negative count still iterates
PyRangeAbs(a, b) == [k \in 1..(IF b > a THEN b - a ELSE a - b) |-> a + k - 1]

\* range(a, b) as a list
PyRange(a, b) == [k \in 1..(IF b > a THEN b - a ELSE 0) |-> a + k - 1]

\* the decimal digits of i >= 0, most significant first
RECURSIVE DecimalDigits(_)
DecimalDigits(i) == IF i < 10 THEN <<i>> ELSE Append(DecimalDigits(i \div 10), i % 10)

DigitChar == <<"0", "1", "2", "3", "4", "5", "6", "7", "8", "9">>

\* str(i) for i >= 0, as its characters
Str(i) == [k \in 1..Len(DecimalDigits(i)) |-> DigitChar[DecimalDigits(i)[k] + 1]]

\* os.path.join(dir_path, file_name): a path is a sequence of strings
PathJoin(dir_path, file_name) == <<dir_path, "/">> \o file_name

(***************************************************************************)
(* __init__                                                                *)
(***************************************************************************)
major_chord_template == <<0, 4, 7>>
minor_chord_template == <<0, 3, 7>>
C4 == 48
B4 == 59

\* [pc + i for pc in template]
Transpose(template, i) == [k \in 1..Len(template) |-> template[k] + i]

\* Faulty variant: range(C4, B4) leaves the last root out
TemplatesOfExclusive(template) ==
    LET roots == PyRange(C4, B4)
    IN  [k \in 1..Len(roots) |-> Transpose(template, roots[k])]

\* [[pc+i for pc in template] for i in range(C4, B4+1)]
TemplatesOf(template) ==
    LET roots == PyRange(C4, B4 + 1)
    IN  [k \in 1..Len(roots) |-> Transpose(template, roots[k])]

\* the value of self.chord_templates after the constructor
BuiltTemplates == TemplatesOf(major_chord_template) \o TemplatesOf(minor_chord_template)

\* every inner list is a fresh object: template k is stored at address k
Init ==
    /\ heap = BuiltTemplates
    /\ chord_templates = [k \in 1..Len(BuiltTemplates) |-> k]
    /\ chord_progressions = <<>>
    /\ num_chords = 0
    /\ pc = "constructed"
    /\ fs = {}
    /\ trace = <<>>
    /\ call = [arg |-> <<>>, dir_path |-> "", file_type |-> "", fs_before |-> {}]
    /\ file_path = <<>>
    /\ exc = "none"
    /\ saves = 0

(***************************************************************************)
(* generate_chord_progressions                                             *)
(***************************************************************************)
\* Faulty variant: the new pool varies slowest instead of fastest
ProductStepRightmostSlowest(result, pool) ==
    [k \in 1..(Len(result) * Len(pool)) |->
        Append(result[((k - 1) % Len(result)) + 1], pool[((k - 1) \div Len(result)) + 1])]

\* One pool of itertools.product: result = [x + [y] for x in result for y in pool].
\* The nested comprehension lists, for each x in order, every y in order.
ProductStep(result, pool) ==
    [k \in 1..(Len(result) * Len(pool)) |->
        Append(result[((k - 1) \div Len(pool)) + 1], pool[((k - 1) % Len(pool)) + 1])]

\* itertools.product(*pools): starts from [[]] and takes the pools left to right
RECURSIVE Product(_)
Product(pools) ==
    IF pools = <<>> THEN << <<>> >>
    ELSE ProductStep(Product(SubSeq(pools, 1, Len(pools) - 1)), pools[Len(pools)])

\* Faulty variant: one pool too few
ArgsOneShort(n) == [k \in 1..Len(PyRange(1, n)) |-> chord_templates]

\* args = [self.chord_templates for _ in range(num_chords)]
Args(n) == [k \in 1..Len(PyRange(0, n)) |-> chord_templates]

\* the list the call returns: each tuple of the product copied into a new list,
\* whose elements are the very objects chord_templates holds
GenerateResult(n) == Product(Args(n))

BruteForcedNotice(n) == [ev |-> "print_brute_forced", path |-> <<>>, n |-> n, tot |-> 0]

Generate(n) ==
    /\ pc # "raised"
    /\ chord_progressions' = GenerateResult(n)
    /\ num_chords' = n
    /\ trace' = <<BruteForcedNotice(n)>>
    /\ exc' = "none"
    /\ pc' = "generated"
    /\ UNCHANGED <<chord_templates, heap, fs, call, file_path, saves>>

(***************************************************************************)
(* _save_chord_progression                                                 *)
(***************************************************************************)
\* music21.chord.Chord(c): the chord made of the pitches the list c holds now
Music21Chord(c) == [pitches |-> heap[c]]

\* the file stream.write(file_type, fp=file_path) leaves: a stream holding one
\* part holding the chords in the order they were appended
SavedFile(chord_progression, file_type) ==
    LET music21_chords ==
            [k \in 1..Len(chord_progression) |-> Music21Chord(chord_progression[k])]
        part == music21_chords
        stream == <<part>>
    IN  [format |-> file_type, complete |-> TRUE, parts |-> stream, text |-> <<>>]

\* what a write that fails part way may leave at its path
TruncatedFile(file_type) ==
    [format |-> file_type, complete |-> FALSE, parts |-> <<>>, text |-> <<>>]

\* (over)writing one file
WriteFile(files, path, file) ==
    {f \in files : f.path # path} \cup {[path |-> path, file |-> file]}

(***************************************************************************)
(* json.dump(chord_progressions, fp, indent=4) and json.load                *)
(***************************************************************************)
JsonIndent == 4

Tok(t, v) == [t |-> t, v |-> v]

\* "\n" followed by the indentation of nesting level `level`
NewlineIndent(level) == Tok("newline_indent", JsonIndent * level)

IntTokens(i) ==
    IF i < 0
    THEN <<Tok("-", 0)>> \o [k \in 1..Len(DecimalDigits(-i)) |-> Tok("digit", DecimalDigits(-i)[k])]
    ELSE [k \in 1..Len(DecimalDigits(i)) |-> Tok("digit", DecimalDigits(i)[k])]

\* the text of value v, a list nested `depth` deep over integers (depth 0: an
\* integer), written at nesting level `level`
RECURSIVE JsonDump(_, _, _)
RECURSIVE JsonDumpItems(_, _, _, _)
JsonDump(v, depth, level) ==
    IF depth = 0 THEN IntTokens(v)
    ELSE IF Len(v) = 0 THEN <<Tok("[", 0), Tok("]", 0)>>
    ELSE <<Tok("[", 0)>> \o JsonDumpItems(v, 1, depth, level + 1)
            \o <<NewlineIndent(level), Tok("]", 0)>>

JsonDumpItems(v, k, depth, level) ==
    IF k > Len(v) THEN <<>>
    ELSE (IF k > 1 THEN <<Tok(",", 0)>> ELSE <<>>)
            \o <<NewlineIndent(level)>>
            \o JsonDump(v[k], depth - 1, level)
            \o JsonDumpItems(v, k + 1, depth, level)

\* json.load, the reader of what json.dump writes: each operator returns
\* [val, pos], the value read and the position after it
RECURSIVE SkipWhitespace(_, _)
SkipWhitespace(toks, pos) ==
    IF pos <= Len(toks) /\ toks[pos].t = "newline_indent"
    THEN SkipWhitespace(toks, pos + 1) ELSE pos

RECURSIVE ParseDigits(_, _, _)
ParseDigits(toks, pos, acc) ==
    IF pos <= Len(toks) /\ toks[pos].t = "digit"
    THEN ParseDigits(toks, pos + 1, 10 * acc + toks[pos].v)
    ELSE [val |-> acc, pos |-> pos]

RECURSIVE ParseValue(_, _)
RECURSIVE ParseItems(_, _, _)
ParseValue(toks, pos) ==
    LET p == SkipWhitespace(toks, pos)
    IN  IF toks[p].t = "["
        THEN LET q == SkipWhitespace(toks, p + 1)
             IN  IF toks[q].t = "]" THEN [val |-> <<>>, pos |-> q + 1]
                 ELSE ParseItems(toks, q, <<>>)
        ELSE IF toks[p].t = "-"
        THEN LET r == ParseDigits(toks, p + 1, 0) IN [val |-> 0 - r.val, pos |-> r.pos]
        ELSE ParseDigits(toks, p, 0)

ParseItems(toks, pos, acc) ==
    LET r == ParseValue(toks, pos)
        p == SkipWhitespace(toks, r.pos)
    IN  IF toks[p].t = ","
        THEN ParseItems(toks, p + 1, Append(acc, r.val))
        ELSE [val |-> Append(acc, r.val), pos |-> p + 1]

JsonLoad(toks) == ParseValue(toks, 1).val

\* the nested lists of integers a list of progressions holds now
PitchesOf(progressions) ==
    [i \in 1..Len(progressions) |->
        [j \in 1..Len(progressions[i]) |-> heap[progressions[i][j]]]]

(***************************************************************************)
(* save_chord_progressions                                                 *)
(***************************************************************************)
NoticeEvery == 100

\* file_path before its first assignment
Unbound == <<>>

\* Faulty variant: files numbered from 1
FileNameOneBased(i, file_type) == Str(i + 1) \o <<".", file_type>>

\* file_name = str(i) + "." + file_type
FileName(i, file_type) == Str(i) \o <<".", file_type>>

LoopPath(i, dir_path, file_type) == PathJoin(dir_path, FileName(i, file_type))

JsonPath(dir_path) == PathJoin(dir_path, <<"chord_progressions", ".", "json">>)

WriteEvent(path, i) == [ev |-> "write", path |-> path, n |-> i, tot |-> 0]

WriteFailedEvent(path, i) == [ev |-> "write_failed", path |-> path, n |-> i, tot |-> 0]

SavedNotice(n, tot) == [ev |-> "print_saved", path |-> Unbound, n |-> n, tot |-> tot]

SuccessNotice(path) == [ev |-> "print_successfully_saved", path |-> path, n |-> 0, tot |-> 0]

\* one iteration of the loop: the file is written, then the notice is printed
\* when (i + 1) % 100 == 0
IterationEvents(i, tot, dir_path, file_type) ==
    <<WriteEvent(LoopPath(i, dir_path, file_type), i)>>
        \o (IF (i + 1) % NoticeEvery = 0 THEN <<SavedNotice(i + 1, tot)>> ELSE <<>>)

\* iterations lo .. hi-1, in order
RECURSIVE LoopEvents(_, _, _, _, _)
LoopEvents(lo, hi, tot, dir_path, file_type) ==
    IF hi <= lo THEN <<>>
    ELSE IF hi = lo + 1 THEN IterationEvents(lo, tot, dir_path, file_type)
    ELSE LET mid == (lo + hi) \div 2
         IN  LoopEvents(lo, mid, tot, dir_path, file_type)
                \o LoopEvents(mid, hi, tot, dir_path, file_type)

\* the files after iterations 0 .. n-1 (their paths differ, as str is injective)
LoopFiles(files, arg, n, dir_path, file_type) ==
    LET paths == {LoopPath(i, dir_path, file_type) : i \in 0..(n - 1)}
    IN  {f \in files : f.path \notin paths}
            \cup {[path |-> LoopPath(i, dir_path, file_type),
                   file |-> SavedFile(arg[i + 1], file_type)] : i \in 0..(n - 1)}

\* how the environment lets a call fail.  at = NoFail: nothing fails.
\* midi/xml: the write of index `at` raises, leaving a truncated file when
\* `partial`.  json: open raises (not partial), or json.dump raises after
\* `at` tokens were written (partial).
NoFail == 0 - 1

Reliable == [at |-> NoFail, partial |-> FALSE]

\* Faulty variant: the files written before the failure are removed again
WriteFailureCleansUp(files, events, n, dir_path, file_type, partial) ==
    [fs |-> fs,
     trace |-> Append(events, WriteFailedEvent(LoopPath(n, dir_path, file_type), n)),
     file_path |-> LoopPath(n, dir_path, file_type),
     exc |-> "write_error"]

\* stream.write raises in iteration n: the exception leaves the loop and the
\* call; files and events are those of iterations 0 .. n-1
WriteFailure(files, events, n, dir_path, file_type, partial) ==
    [fs |-> IF partial
            THEN WriteFile(files, LoopPath(n, dir_path, file_type), TruncatedFile(file_type))
            ELSE files,
     trace |-> Append(events, WriteFailedEvent(LoopPath(n, dir_path, file_type), n)),
     file_path |-> LoopPath(n, dir_path, file_type),
     exc |-> "write_error"]

\* the branch file_type == "midi" or file_type == "xml"
SaveMidiXml(arg, dir_path, file_type, fail) ==
    LET tot_chord_sequences == Len(arg)
        failed == fail.at \in 0..(Len(arg) - 1)
        n == IF failed THEN fail.at ELSE Len(arg)
        files == LoopFiles(fs, arg, n, dir_path, file_type)
        events == LoopEvents(0, n, tot_chord_sequences, dir_path, file_type)
    IN  IF failed
        THEN WriteFailure(files, events, n, dir_path, file_type, fail.partial)
        ELSE [fs |-> files,
              trace |-> events,
              file_path |-> IF n = 0 THEN Unbound ELSE LoopPath(n - 1, dir_path, file_type),
              exc |-> "none"]

\* Faulty variant: the file is opened for appending
JsonWriteAppends(files, path, text, complete) ==
    LET old == {f \in files : f.path = path}
        before == IF old = {} THEN <<>> ELSE (CHOOSE f \in old : TRUE).file.text
    IN  WriteFile(files, path, [format |-> "json", complete |-> complete,
                                parts |-> <<>>, text |-> before \o text])

\* with open(file_path, "w") as fp: json.dump(...): the file is truncated, then
\* holds what was written
JsonWrite(files, path, text, complete) ==
    WriteFile(files, path, [format |-> "json", complete |-> complete,
                            parts |-> <<>>, text |-> text])

\* the branch file_type == "json"
SaveJson(arg, dir_path, fail) ==
    LET path == JsonPath(dir_path)
        text == JsonDump(PitchesOf(arg), 3, 0)
        opened == [ev |-> "open_w", path |-> path, n |-> 0, tot |-> 0]
    IN  IF fail.at = NoFail
        THEN [fs |-> JsonWrite(fs, path, text, TRUE),
              trace |-> <<opened, [ev |-> "json_dump", path |-> path, n |-> 0, tot |-> 0]>>,
              file_path |-> path,
              exc |-> "none"]
        ELSE IF ~fail.partial
        THEN [fs |-> fs,
              trace |-> <<[ev |-> "open_failed", path |-> path, n |-> 0, tot |-> 0]>>,
              file_path |-> path,
              exc |-> "open_error"]
        ELSE [fs |-> JsonWrite(fs, path,
                               SubSeq(text, 1, IF fail.at < Len(text) THEN fail.at
                                               ELSE Len(text)),
                               FALSE),
              trace |-> <<opened, [ev |-> "json_dump_failed", path |-> path, n |-> 0, tot |-> 0]>>,
              file_path |-> path,
              exc |-> "write_error"]

\* Faulty variant: file_path is given a value before the branches
SaveOtherBound ==
    [fs |-> fs, trace |-> <<>>, file_path |-> <<".", "/">>, exc |-> "none"]

\* neither branch is taken
SaveOther == [fs |-> fs, trace |-> <<>>, file_path |-> Unbound, exc |-> "none"]

\* print("Successfully saved chord progressions at {}".format(file_path)),
\* reached when nothing was raised before it
FinalNotice(st) ==
    IF st.exc # "none" THEN st
    ELSE IF st.file_path = Unbound THEN [st EXCEPT !.exc = "UnboundLocalError"]
    ELSE [st EXCEPT !.trace = Append(@, SuccessNotice(st.file_path))]

SaveOutcome(arg, dir_path, file_type, fail) ==
    FinalNotice(IF file_type = "midi" \/ file_type = "xml"
                THEN SaveMidiXml(arg, dir_path, file_type, fail)
                ELSE IF file_type = "json"
                THEN SaveJson(arg, dir_path, fail)
                ELSE SaveOther)

\* the inputs of the model
NumChords == (0 - MaxNeg)..MaxN

Dirs == {"chord_sequences2"}

\* "txt" stands for every string other than "midi", "xml" and "json"
FileTypes == {"midi", "xml", "json", "txt"}

\* the caller passes a prefix of the list it holds
SaveSizes(file_type) ==
    LET len == Len(chord_progressions)
        small == IF file_type = "json" THEN MaxJson ELSE MaxSmall
    IN  (0..(IF len < small THEN len ELSE small))
            \cup (IF file_type # "json" /\ len >= MaxSave THEN {MaxSave} ELSE {})

FailPoints(k) ==
    {j \in 0..(k - 1) : j < MaxFail \/ j = k - 1 \/ (j + 1) % NoticeEvery <= 1}

Fails(k, file_type) ==
    {Reliable} \cup
    (IF file_type = "midi" \/ file_type = "xml"
     THEN {[at |-> j, partial |-> b] : j \in FailPoints(k), b \in BOOLEAN}
     ELSE IF file_type = "json"
     THEN {[at |-> 0, partial |-> FALSE], [at |-> 0, partial |-> TRUE],
           [at |-> 1, partial |-> TRUE]}
     ELSE {})

Save(k, dir_path, file_type, fail) ==
    /\ pc # "raised"
    /\ LET arg == SubSeq(chord_progressions, 1, k)
           out == SaveOutcome(arg, dir_path, file_type, fail)
       IN  /\ fs' = out.fs
           /\ trace' = out.trace
           /\ file_path' = out.file_path
           /\ exc' = out.exc
           /\ pc' = IF out.exc = "none" THEN "saved" ELSE "raised"
           /\ call' = [arg |-> arg, dir_path |-> dir_path, file_type |-> file_type,
                       fs_before |-> fs]
    /\ saves' = saves + 1
    /\ UNCHANGED <<chord_templates, heap, chord_progressions, num_chords>>

GenerateCall == \E n \in NumChords : Generate(n)

SaveCall ==
    /\ saves < MaxSaves
    /\ \E file_type \in FileTypes, dir_path \in Dirs :
        \E k \in SaveSizes(file_type) :
            \E fail \in Fails(k, file_type) : Save(k, dir_path, file_type, fail)

\* The caller generates, then saves what it holds.
Next == (saves = 0 /\ GenerateCall) \/ SaveCall

Spec == Init /\ [][Next]_vars

(***************************************************************************)
(* A run that saves json only, any number of times to the same directory.  *)
(***************************************************************************)
JsonSaveCall ==
    /\ saves < MaxJsonSaves
    /\ \E dir_path \in Dirs :
        \E k \in SaveSizes("json") :
            \E fail \in Fails(k, "json") : Save(k, dir_path, "json", fail)

NextJson == GenerateCall \/ JsonSaveCall

SpecJson == Init /\ [][NextJson]_vars

(***************************************************************************)
(* A caller that writes into the lists it was given:                       *)
(* chord_progressions[k][j][p] = v.                                        *)
(***************************************************************************)
Mutate(k, j, p, v) ==
    /\ pc = "generated"
    /\ heap' = [heap EXCEPT ![chord_progressions[k][j]][p] = v]
    /\ UNCHANGED <<chord_templates, chord_progressions, num_chords, pc, fs, trace,
                   call, file_path, exc, saves>>

MutateCall ==
    \E k \in 1..(IF Len(chord_progressions) < MaxMutated
                 THEN Len(chord_progressions) ELSE MaxMutated) :
        \E j \in 1..Len(chord_progressions[k]) :
            \E p \in 1..Len(heap[chord_progressions[k][j]]) :
                \E v \in 0..MaxPitch : Mutate(k, j, p, v)

NextMut == GenerateCall \/ MutateCall

SpecMut == Init /\ [][NextMut]_vars

(***************************************************************************)
(* Properties.                                                             *)
(***************************************************************************)
RECURSIVE Pow(_, _)
Pow(b, e) == IF e = 0 THEN 1 ELSE b * Pow(b, e - 1)

\* the pitches of the vocabulary, template by template
Vocabulary == [k \in 1..Len(chord_templates) |-> heap[chord_templates[k]]]

Ended == pc \in {"saved", "raised"}

ScoreCall == call.file_type \in {"midi", "xml"}

\* the events of one kind in the trace of the most recent call, in order
EventsOf(kind) == SelectSeq(trace, LAMBDA e : e.ev = kind)

\* the number a file name's stem denotes, and whether str() writes it that way
CharValue(c) == CHOOSE d \in 0..9 : DigitChar[d + 1] = c

RECURSIVE NatOf(_)
NatOf(chars) ==
    IF Len(chars) = 0 THEN 0
    ELSE 10 * NatOf(SubSeq(chars, 1, Len(chars) - 1)) + CharValue(chars[Len(chars)])

Canonical(chars) ==
    /\ Len(chars) >= 1
    /\ \A k \in 1..Len(chars) : \E d \in 0..9 : DigitChar[d + 1] = chars[k]
    /\ Len(chars) > 1 => chars[1] # "0"

\* f is a file "<i>.<ext>" of directory dir, its stem as str() writes a number
IsScoreFile(f, dir, ext) ==
    /\ Len(f.path) >= 5
    /\ f.path[1] = dir /\ f.path[2] = "/"
    /\ f.path[Len(f.path) - 1] = "." /\ f.path[Len(f.path)] = ext
    /\ Canonical(SubSeq(f.path, 3, Len(f.path) - 2))

\* the index i of such a file
FileIndex(f) == NatOf(SubSeq(f.path, 3, Len(f.path) - 2))

IsIndexedFile(f, dir, i, ext) == IsScoreFile(f, dir, ext) /\ FileIndex(f) = i

\* f holds, in one part, the chords of progression prog in order
HoldsProgression(f, prog, ext) ==
    /\ f.file.format = ext
    /\ f.file.complete
    /\ Len(f.file.parts) = 1
    /\ Len(f.file.parts[1]) = Len(prog)
    /\ \A j \in 1..Len(prog) : f.file.parts[1][j].pitches = heap[prog[j]]

\* C1: for every N >= 1 (N up to MaxN), generate_chord_progressions(N) returns
\* exactly 24^N progressions, each of length exactly N.
C1_ResultSize ==
    (pc = "generated" /\ num_chords >= 1) =>
        /\ Len(chord_progressions) = Pow(24, num_chords)
        /\ \A k \in 1..Len(chord_progressions) :
                Len(chord_progressions[k]) = num_chords

C1_Witness ==
    /\ pc = "generated"
    /\ num_chords = 2
    /\ Len(chord_progressions) = 576
    /\ Len(chord_progressions[576]) = 2

\* C2: for every N >= 1 the progression at zero-based index k has at position j
\* the vocabulary template of index (k div 24^(N-1-j)) mod 24 (leftmost position
\* slowest); generate(1) returns the 24 templates in vocabulary order, each
\* wrapped as a progression of length 1.
C2_ProductOrder ==
    (pc = "generated" /\ num_chords >= 1) =>
        /\ \A k \in 0..(Len(chord_progressions) - 1) :
            \A j \in 0..(Len(chord_progressions[k + 1]) - 1) :
                heap[chord_progressions[k + 1][j + 1]]
                    = Vocabulary[((k \div Pow(24, num_chords - 1 - j)) % 24) + 1]
        /\ num_chords = 1 =>
                PitchesOf(chord_progressions) = [k \in 1..24 |-> <<Vocabulary[k]>>]

C2_Witness ==
    /\ pc = "generated"
    /\ num_chords = 2
    /\ Len(chord_progressions) >= 26
    /\ PitchesOf(chord_progressions)[26] = <<Vocabulary[2], Vocabulary[2]>>
    /\ PitchesOf(chord_progressions)[25] = <<Vocabulary[2], Vocabulary[1]>>

\* C3: the vocabulary has exactly 24 templates of 3 pitches: entries 0..11 the
\* major triads (root, root+4, root+7) for root = 48..59 ascending, entries
\* 12..23 the minor triads (root, root+3, root+7) for root = 48..59 ascending;
\* so every template has intervals {0,4,7} or {0,3,7} over its minimum, there
\* are 12 of each quality and no two templates are equal.  No generate or save
\* call changes it.
C3_Vocabulary ==
    /\ Len(Vocabulary) = 24
    /\ \A k \in 0..11 : Vocabulary[k + 1] = <<48 + k, 48 + k + 4, 48 + k + 7>>
    /\ \A k \in 12..23 : Vocabulary[k + 1] = <<36 + k, 36 + k + 3, 36 + k + 7>>
    /\ \A k \in 1..Len(Vocabulary) :
        LET t == Vocabulary[k]
            low == CHOOSE x \in {t[i] : i \in 1..Len(t)} :
                        \A y \in {t[i] : i \in 1..Len(t)} : x <= y
        IN  /\ Len(t) = 3
            /\ {t[i] - low : i \in 1..3} \in {{0, 4, 7}, {0, 3, 7}}
    /\ Cardinality({k \in 1..Len(Vocabulary) :
            {Vocabulary[k][i] - Vocabulary[k][1] : i \in 1..3} = {0, 4, 7}}) = 12
    /\ Cardinality({k \in 1..Len(Vocabulary) :
            {Vocabulary[k][i] - Vocabulary[k][1] : i \in 1..3} = {0, 3, 7}}) = 12
    /\ \A a, b \in 1..Len(Vocabulary) : a # b => Vocabulary[a] # Vocabulary[b]

C3_Witness ==
    /\ pc = "constructed"
    /\ Len(chord_templates) = 24
    /\ Vocabulary[1] = <<48, 52, 55>>
    /\ Vocabulary[24] = <<59, 62, 66>>

\* C4: a midi or xml save of K progressions (K >= 0) into an empty directory,
\* with no write failing, leaves exactly K files there, named "<i>.<file_type>"
\* for i = 0..K-1, file i holding the chords of progression i in order.
C4_OneFilePerProgression ==
    (Ended /\ ScoreCall /\ exc # "write_error" /\ call.fs_before = {}) =>
        /\ Cardinality(fs) = Len(call.arg)
        /\ \A f \in fs : IsScoreFile(f, call.dir_path, call.file_type)
        /\ {FileIndex(f) : f \in fs} = 0..(Len(call.arg) - 1)
        /\ \A f \in fs :
                HoldsProgression(f, call.arg[FileIndex(f) + 1], call.file_type)

C4_Witness ==
    /\ pc = "saved"
    /\ call.file_type = "xml"
    /\ call.fs_before = {}
    /\ Len(call.arg) >= 200
    /\ Cardinality(fs) = Len(call.arg)
    /\ \E f \in fs : IsIndexedFile(f, call.dir_path, 199, "xml")
\* f is the file chord_progressions.json of directory dir
IsJsonFile(f, dir) == f.path = <<dir, "/", "chord_progressions", ".", "json">>

\* C5: after a successful json save (the latest of any sequence of json saves to
\* the same directory) the directory holds the single file
\* chord_progressions.json, complete, whose parsed content is the list passed to
\* that call, same nesting and order; and when the file it replaced already
\* held that list, the file is left identical.
C5_JsonRoundTrip ==
    (pc = "saved" /\ call.file_type = "json") =>
        /\ Cardinality(fs) = 1
        /\ \A f \in fs :
            /\ IsJsonFile(f, call.dir_path)
            /\ f.file.format = "json"
            /\ f.file.complete
            /\ JsonLoad(f.file.text) = PitchesOf(call.arg)
        /\ \A g \in call.fs_before :
            (g.file.complete /\ JsonLoad(g.file.text) = PitchesOf(call.arg))
                => fs = call.fs_before

\* a second json save, of a shorter list than the file held
C5_Witness ==
    /\ pc = "saved"
    /\ call.file_type = "json"
    /\ saves = 2
    /\ Len(call.arg) = 1
    /\ \E g \in call.fs_before :
            g.file.complete /\ Len(JsonLoad(g.file.text)) = 2
    /\ \E f \in fs : JsonLoad(f.file.text) = <<<<Vocabulary[1], Vocabulary[1]>>>>

\* C6: no chord of a returned progression is the same object as a vocabulary
\* template, so a caller changing a pitch in a returned progression does not
\* change the vocabulary: the vocabulary always has the pitches it was built
\* with.
C6_VocabularyIsolated == Vocabulary = BuiltTemplates

\* C7: every save call with file_type midi, xml or json that meets no
\* filesystem or backend error ends with exactly one success notice, the last
\* thing printed, naming the last path written, for every K >= 0; a midi or xml
\* save prints a progress notice exactly after the 100th, 200th, ... file was
\* written and before the next is begun, K div 100 in all; a json save prints
\* none.
C7_Notices ==
    (Ended /\ call.file_type \in {"midi", "xml", "json"}
           /\ exc \notin {"write_error", "open_error"}) =>
        /\ Len(EventsOf("print_successfully_saved")) = 1
        /\ trace[Len(trace)].ev = "print_successfully_saved"
        /\ trace[Len(trace)].path = file_path
        /\ \E f \in fs : f.path = file_path
        /\ call.file_type = "json" => Len(EventsOf("print_saved")) = 0
        /\ ScoreCall =>
            /\ Len(EventsOf("print_saved")) = Len(call.arg) \div 100
            /\ \A e \in 1..Len(trace) :
                trace[e].ev = "print_saved" =>
                    /\ trace[e].n % 100 = 0
                    /\ trace[e].tot = Len(call.arg)
                    /\ e > 1 /\ trace[e - 1].ev = "write"
                    /\ trace[e - 1].n = trace[e].n - 1
            /\ \A e \in 1..Len(trace) :
                (trace[e].ev = "write" /\ (trace[e].n + 1) % 100 = 0) =>
                    trace[e + 1].ev = "print_saved"

\* What holds of C7's notices: the statement for every call that binds
\* file_path, that is every json call and every midi or xml call with K >= 1.
C7_NoticesNonEmpty ==
    (call.file_type = "json" \/ Len(call.arg) >= 1) => C7_Notices

\* C8: a midi or xml save writes its files one after the other in ascending
\* index order; when the write of index j fails the call ends there with the
\* exception: files 0..j-1 are written, complete and left in place, no file of
\* index above j is written, the write is not tried again, no success notice is
\* printed and the run makes no further step.
C8_FailureStopsTheRun ==
    /\ (Ended /\ ScoreCall) =>
            LET writes == EventsOf("write")
            IN  \A e \in 1..Len(writes) : writes[e].n = e - 1
    /\ (pc = "raised" /\ ScoreCall /\ exc = "write_error") =>
        LET j == trace[Len(trace)].n
            mine == {f \in fs : IsScoreFile(f, call.dir_path, call.file_type)}
            below == {f \in mine : FileIndex(f) < j}
        IN  /\ trace[Len(trace)].ev = "write_failed"
            /\ Len(EventsOf("write_failed")) = 1
            /\ Len(EventsOf("write")) = j
            /\ Len(EventsOf("print_successfully_saved")) = 0
            /\ {FileIndex(f) : f \in below} = 0..(j - 1)
            /\ \A f \in below :
                    HoldsProgression(f, call.arg[FileIndex(f) + 1], call.file_type)
            /\ \A f \in mine : FileIndex(f) > j => f \in call.fs_before
    /\ pc = "raised" => ~ENABLED Next

C8_Witness ==
    /\ pc = "raised"
    /\ ScoreCall
    /\ exc = "write_error"
    /\ trace[Len(trace)].n = 100
    /\ Len(EventsOf("print_saved")) = 1
    /\ \E f \in fs : IsIndexedFile(f, call.dir_path, 99, call.file_type)

\* C9: for every num_chords <= 0, generate_chord_progressions returns a list
\* holding exactly one progression, which is empty; it raises nothing.
C9_NonPositive ==
    (pc = "generated" /\ num_chords <= 0) =>
        /\ Len(chord_progressions) = 1
        /\ chord_progressions[1] = <<>>
        /\ exc = "none"

C9_Witness ==
    /\ pc = "generated"
    /\ num_chords < 0
    /\ chord_progressions = << <<>> >>

\* C10: a save call whose file_type is none of midi, xml, json creates or
\* changes no file and ends in an exception, with no success notice.
C10_UnknownFileType ==
    (Ended /\ call.file_type \notin {"midi", "xml", "json"}) =>
        /\ fs = call.fs_before
        /\ pc = "raised"
        /\ exc # "none"
        /\ Len(EventsOf("print_successfully_saved")) = 0

C10_Witness ==
    /\ pc = "raised"
    /\ call.file_type = "txt"
    /\ Len(call.arg) >= 1
    /\ exc = "UnboundLocalError"

====
